---- MODULE Spec2Model ----
(***************************************************************************)
(* Model of the hospital department web application.                       *)
(*                                                                         *)
(*   Part I   radiology blueprint (src/radiology.py): the in-memory        *)
(*            REQUEST_QUEUE, SCAN_DB, their two locks, the submit /        *)
(*            queue_status / clear_queue handlers and one worker thread    *)
(*            per accepted submission.                                     *)
(*   Part II  main application (src/venkat.py): the Patient, Assessment,   *)
(*            Treatment and LabReport tables and the form routes that      *)
(*            write them.                                                  *)
(*   Part III the JSON patient API of src/venkat.py and the labs blueprint *)
(*            (src/labs.py): the patients dictionary, the order history    *)
(*            file and the routes that read and write them.                *)
(*                                                                         *)
(* Python objects are modelled as a heap: REQUEST_QUEUE is a list of       *)
(* references (request ids) and objs maps each reference to the dict it    *)
(* points to, so that a worker that still holds a reference can write to a *)
(* record that clear_queue has already removed from the list.              *)
(***************************************************************************)
EXTENDS Integers, Sequences, FiniteSets, TLC

\* ------------------------------------------------------------------------
\* Bounds
\* ------------------------------------------------------------------------
\* number of POSTs to radiology_submit in a run; an accepted POST's record id
\* (a uuid4 in the code) is the number of the POST
MaxReq == 2

Requests == 1..MaxReq

\* Python's None for string-valued fields
None == "None"
\* a lock nobody holds
Free == <<>>

\* values a form field can carry: "" stands for a missing or empty field
FormValues == {"", "x"}
Forms == [uhid : FormValues, department : FormValues,
          scan_type : FormValues, body_part : FormValues]

VARIABLES
    REQUEST_QUEUE,  \* list of references to request dicts, newest first
    objs,           \* heap: request id -> request dict
    queue_lock,     \* holder of queue_lock, or Free
    SCAN_DB,        \* set of scan ids known to the scan endpoints
    scan_lock,      \* holder of scan_lock, or Free
    pc,             \* POST -> position of its submit handler, then its worker
    cpc,            \* position of the clear_queue handler
    qpc,            \* position of the queue_status handler
    req,            \* worker-local: the record the lookup found, 0 for None
    scan_id,        \* worker-local: scan id returned by the create call
    filename,       \* worker-local: result of download_scan
    calls,          \* request id -> HTTP calls the worker issued, in order
    threads         \* request id -> number of worker threads started for it

radVars == <<REQUEST_QUEUE, objs, queue_lock, SCAN_DB, scan_lock, pc, cpc,
             qpc, req, scan_id, filename, calls, threads>>

\* ------------------------------------------------------------------------
\* Main application: bounds and state
\* ------------------------------------------------------------------------
\* rows the Patient table may hold in a run
MaxPatients == 3
\* rows that Assessment, Treatment and LabReport together may hold in a run
MaxRows == 2
\* calendar days of a run: date.today() moves from day 1 to day MaxDay
MaxDay == 2

Days == 1..MaxDay

VARIABLES
    User,           \* rows of the user table
    Patient,        \* rows of the patient table, in primary-key order
    Assessment,     \* rows of the assessment table
    Treatment,      \* rows of the treatment table
    LabReport,      \* rows of the lab_report table
    session,        \* the browser session: key -> value
    today           \* date.today()

dbVars == <<User, Patient, Assessment, Treatment, LabReport, session, today>>

\* ------------------------------------------------------------------------
\* JSON patient API and labs blueprint: bounds and state
\* ------------------------------------------------------------------------
\* orders the order history file may hold in a run
MaxOrders == 2
\* orders one department submits through the labs index form
MaxHistory == 21

VARIABLES
    patients,       \* the in-memory patients dictionary: uhid -> entry
    history,        \* content of downloads/order_history.json: list of orders
    downloads,      \* order ids whose order_<id>.txt exists in downloads/
    response        \* what the last JSON API or labs request was answered with

httpVars == <<patients, history, downloads, response>>

vars == <<radVars, dbVars, httpVars>>

\* ------------------------------------------------------------------------
\* Helpers
\* ------------------------------------------------------------------------
\* variant: body_part is left out of the validation
AllPresent_NoBodyPart(form) ==
    /\ form.uhid # ""
    /\ form.department # ""
    /\ form.scan_type # ""

\* all([...]) over the four form fields
AllPresent(form) ==
    /\ form.uhid # ""
    /\ form.department # ""
    /\ form.scan_type # ""
    /\ form.body_part # ""

\* the dict built by radiology_submit
NewRequest(id, form) ==
    [id |-> id, uhid |-> form.uhid, department |-> form.department,
     scan_type |-> form.scan_type, body_part |-> form.body_part,
     status |-> "Pending", filename |-> None, error |-> None]

\* variant: the new request is appended at the end of the list
InsertFront_Append(q, id) == Append(q, id)

\* REQUEST_QUEUE.insert(0, new_request)
InsertFront(q, id) == <<id>> \o q

\* variant: the worker takes the record at the head of the queue
Lookup_Head(q, id) == IF q # <<>> THEN q[1] ELSE 0

\* next((r for r in REQUEST_QUEUE if r['id'] == request_id), None): the first
\* record of the list with that id, 0 standing for None
Lookup(q, id) ==
    LET hits == {k \in 1..Len(q) : objs[q[k]].id = id}
    IN  IF hits = {} THEN 0
        ELSE q[CHOOSE k \in hits : \A l \in hits : k <= l]

\* name under which download_scan_api serves scan sid
ScanFileName(sid) == "scan_" \o ToString(sid) \o ".dcm"

\* jsonify(list(REQUEST_QUEUE)): the dicts' values at the time of the call
Snapshot(q) == [k \in 1..Len(q) |-> objs[q[k]]]

H(i) == <<"submit", i>>
W(i) == <<"worker", i>>
C == <<"clear", 0>>
Q == <<"status", 0>>

\* may thread t take the lock l
CanAcquire(l, t) == l = Free

RadInit ==
    /\ REQUEST_QUEUE = <<>>
    /\ objs = <<>>
    /\ queue_lock = Free
    /\ SCAN_DB = {}
    /\ scan_lock = Free
    /\ pc = [i \in Requests |-> "new"]
    /\ cpc = "idle"
    /\ qpc = "idle"
    /\ req = [i \in Requests |-> 0]
    /\ scan_id = [i \in Requests |-> 0]
    /\ filename = [i \in Requests |-> None]
    /\ calls = [i \in Requests |-> <<>>]
    /\ threads = [i \in Requests |-> 0]

\* ------------------------------------------------------------------------
\* radiology_submit (POST)
\* ------------------------------------------------------------------------
\* POSTs are numbered in the order in which they are handled
NextPost(i) == pc[i] = "new" /\ \A j \in Requests : j < i => pc[j] # "new"

\* a POST with a missing field: return "Missing form data", 400
SubmitInvalid(i, form) ==
    /\ NextPost(i)
    /\ ~AllPresent(form)
    /\ pc' = [pc EXCEPT ![i] = "rejected"]
    /\ UNCHANGED <<httpVars, dbVars, REQUEST_QUEUE, objs, queue_lock, SCAN_DB, scan_lock, cpc,
                   qpc, req, scan_id, filename, calls, threads>>

\* validation passes, new_request is built and the handler takes queue_lock
SubmitLock(i, form) ==
    /\ NextPost(i)
    /\ AllPresent(form)
    /\ CanAcquire(queue_lock, H(i))
    /\ queue_lock' = H(i)
    /\ objs' = objs @@ (i :> NewRequest(i, form))
    /\ pc' = [pc EXCEPT ![i] = "s_insert"]
    /\ UNCHANGED <<httpVars, dbVars, REQUEST_QUEUE, SCAN_DB, scan_lock, cpc, qpc, req, scan_id,
                   filename, calls, threads>>

\* with queue_lock: REQUEST_QUEUE.insert(0, new_request)
SubmitInsert(i) ==
    /\ pc[i] = "s_insert"
    /\ REQUEST_QUEUE' = InsertFront(REQUEST_QUEUE, i)
    /\ queue_lock' = Free
    /\ pc' = [pc EXCEPT ![i] = "s_start"]
    /\ UNCHANGED <<httpVars, dbVars, objs, SCAN_DB, scan_lock, cpc, qpc, req, scan_id,
                   filename, calls, threads>>

\* variant: admission control, no worker is started while another one runs
SubmitStart_Admission(i) ==
    /\ pc[i] = "s_start"
    /\ threads' = IF \E j \in Requests : pc[j] \in {"w_find", "w_lookup",
                        "w_create", "cs_put", "w_download", "ds_get", "w_lock"}
                  THEN threads
                  ELSE [threads EXCEPT ![objs[i].id] = @ + 1]
    /\ pc' = [pc EXCEPT ![i] = IF threads' = threads THEN "done" ELSE "w_find"]
    /\ UNCHANGED <<httpVars, dbVars, REQUEST_QUEUE, objs, queue_lock, SCAN_DB, scan_lock, cpc,
                   qpc, req, scan_id, filename, calls>>

\* threading.Thread(target=process_scan_request_worker, args=(id, ...)).start()
\* and the redirect
SubmitStart(i) ==
    /\ pc[i] = "s_start"
    /\ threads' = [threads EXCEPT ![objs[i].id] = @ + 1]
    /\ pc' = [pc EXCEPT ![i] = "w_find"]
    /\ UNCHANGED <<httpVars, dbVars, REQUEST_QUEUE, objs, queue_lock, SCAN_DB, scan_lock, cpc,
                   qpc, req, scan_id, filename, calls>>

\* ------------------------------------------------------------------------
\* process_scan_request_worker
\* ------------------------------------------------------------------------
\* with queue_lock: (first lock section)
WorkerFindLock(i) ==
    /\ pc[i] = "w_find"
    /\ CanAcquire(queue_lock, W(i))
    /\ queue_lock' = W(i)
    /\ pc' = [pc EXCEPT ![i] = "w_lookup"]
    /\ UNCHANGED <<httpVars, dbVars, REQUEST_QUEUE, objs, SCAN_DB, scan_lock, cpc, qpc, req,
                   scan_id, filename, calls, threads>>

\* req = next(...); the lock is released; "if req:" decides whether to go on
WorkerLookup(i) ==
    /\ pc[i] = "w_lookup"
    /\ req' = [req EXCEPT ![i] = Lookup(REQUEST_QUEUE, i)]
    /\ queue_lock' = Free
    /\ pc' = [pc EXCEPT ![i] = IF req'[i] # 0 THEN "w_create" ELSE "done"]
    /\ UNCHANGED <<httpVars, dbVars, REQUEST_QUEUE, objs, SCAN_DB, scan_lock, cpc, qpc,
                   scan_id, filename, calls, threads>>

\* variant: only RequestException is caught, any other exception ends the
\* thread
WorkerCreateFails_Uncaught(i, exc) ==
    /\ pc[i] = "w_create"
    /\ calls' = [calls EXCEPT ![i] = Append(@, "create")]
    /\ pc' = [pc EXCEPT ![i] = IF exc = "e2" THEN "done" ELSE exc]
    /\ UNCHANGED <<httpVars, dbVars, REQUEST_QUEUE, objs, queue_lock, SCAN_DB, scan_lock, cpc,
                   qpc, req, scan_id, filename, threads>>

\* variant: a failed create call is tried once more
WorkerCreateFails_Retry(i, exc) ==
    /\ pc[i] = "w_create"
    /\ calls' = [calls EXCEPT ![i] = Append(@, "create")]
    /\ pc' = [pc EXCEPT ![i] = IF Len(calls[i]) = 0 THEN "w_create" ELSE exc]
    /\ UNCHANGED <<httpVars, dbVars, REQUEST_QUEUE, objs, queue_lock, SCAN_DB, scan_lock, cpc,
                   qpc, req, scan_id, filename, threads>>

\* requests.post(.../api/scans/create) does not come back with a usable
\* answer: a RequestException (connection error, timeout, HTTP error status)
\* or any other exception (the body is not a JSON object)
WorkerCreateFails(i, exc) ==
    /\ pc[i] = "w_create"
    /\ calls' = [calls EXCEPT ![i] = Append(@, "create")]
    /\ pc' = [pc EXCEPT ![i] = exc]
    /\ UNCHANGED <<httpVars, dbVars, REQUEST_QUEUE, objs, queue_lock, SCAN_DB, scan_lock, cpc,
                   qpc, req, scan_id, filename, threads>>

\* the POST reaches create_scan, which takes scan_lock
WorkerCreateReach(i) ==
    /\ pc[i] = "w_create"
    /\ calls' = [calls EXCEPT ![i] = Append(@, "create")]
    /\ CanAcquire(scan_lock, W(i))
    /\ scan_lock' = W(i)
    /\ pc' = [pc EXCEPT ![i] = "cs_put"]
    /\ UNCHANGED <<httpVars, dbVars, REQUEST_QUEUE, objs, queue_lock, SCAN_DB, cpc, qpc, req,
                   scan_id, filename, threads>>

\* str(uuid.uuid4()) in create_scan: a value no other call gets (every create
\* call of every worker gets its own)
NewScanId(i) == i + MaxReq * (Len(calls[i]) - 1)

\* create_scan: SCAN_DB[new_scan_id] = {...}; the worker reads scan_id
CreateScanPut(i) ==
    /\ pc[i] = "cs_put"
    /\ SCAN_DB' = SCAN_DB \cup {NewScanId(i)}
    /\ scan_id' = [scan_id EXCEPT ![i] = NewScanId(i)]
    /\ scan_lock' = Free
    /\ pc' = [pc EXCEPT ![i] = "w_download"]
    /\ UNCHANGED <<httpVars, dbVars, REQUEST_QUEUE, objs, queue_lock, cpc, qpc, req, filename,
                   calls, threads>>

\* download_scan: the GET raises (caught inside download_scan): None
WorkerDownloadFails(i) ==
    /\ pc[i] = "w_download"
    /\ calls' = [calls EXCEPT ![i] = Append(@, "download")]
    /\ filename' = [filename EXCEPT ![i] = None]
    /\ pc' = [pc EXCEPT ![i] = "w_lock"]
    /\ UNCHANGED <<httpVars, dbVars, REQUEST_QUEUE, objs, queue_lock, SCAN_DB, scan_lock, cpc,
                   qpc, req, scan_id, threads>>

\* the GET reaches download_scan_api, which takes scan_lock
WorkerDownloadReach(i) ==
    /\ pc[i] = "w_download"
    /\ calls' = [calls EXCEPT ![i] = Append(@, "download")]
    /\ CanAcquire(scan_lock, W(i))
    /\ scan_lock' = W(i)
    /\ pc' = [pc EXCEPT ![i] = "ds_get"]
    /\ UNCHANGED <<httpVars, dbVars, REQUEST_QUEUE, objs, queue_lock, SCAN_DB, cpc, qpc, req,
                   scan_id, filename, threads>>

\* download_scan_api: 404 when the scan is unknown, else the file is served
\* and download_scan returns the name from Content-Disposition
DownloadScanGet(i) ==
    /\ pc[i] = "ds_get"
    /\ filename' = [filename EXCEPT ![i] =
                      IF scan_id[i] \in SCAN_DB THEN ScanFileName(scan_id[i])
                                                ELSE None]
    /\ scan_lock' = Free
    /\ pc' = [pc EXCEPT ![i] = "w_lock"]
    /\ UNCHANGED <<httpVars, dbVars, REQUEST_QUEUE, objs, queue_lock, SCAN_DB, cpc, qpc, req,
                   scan_id, calls, threads>>

\* req['status'] = 'Completed' if filename else 'Failed'
StatusFor(fn) == IF fn # None THEN "Completed" ELSE "Failed"
\* variant: the error text is left out
ErrorFor_NoText(fn) == None

\* req['error'] = None if filename else 'Download failed'
ErrorFor(fn) == IF fn # None THEN None ELSE "Download failed"
\* the error text of the two except branches
ExcError(branch) == IF branch = "e1" THEN "RequestException"
                    ELSE "An unexpected error occurred"

\* variant: the result is written without taking queue_lock
WorkerWriteLock_NoLock(i) ==
    /\ pc[i] \in {"w_lock", "e1", "e2"}
    /\ pc' = [pc EXCEPT ![i] = CASE pc[i] = "w_lock" -> "w_status"
                                 [] pc[i] = "e1" -> "e1_status"
                                 [] pc[i] = "e2" -> "e2_status"]
    /\ UNCHANGED <<httpVars, dbVars, REQUEST_QUEUE, objs, queue_lock, SCAN_DB, scan_lock, cpc,
                   qpc, req, scan_id, filename, calls, threads>>

\* with queue_lock: of the result section and of the two except branches
WorkerWriteLock(i) ==
    /\ pc[i] \in {"w_lock", "e1", "e2"}
    /\ CanAcquire(queue_lock, W(i))
    /\ queue_lock' = W(i)
    /\ pc' = [pc EXCEPT ![i] = CASE pc[i] = "w_lock" -> "w_status"
                                 [] pc[i] = "e1" -> "e1_status"
                                 [] pc[i] = "e2" -> "e2_status"]
    /\ UNCHANGED <<httpVars, dbVars, REQUEST_QUEUE, objs, SCAN_DB, scan_lock, cpc, qpc, req,
                   scan_id, filename, calls, threads>>

WorkerSetStatus(i) ==
    /\ pc[i] = "w_status"
    /\ objs' = [objs EXCEPT ![req[i]].status = StatusFor(filename[i])]
    /\ pc' = [pc EXCEPT ![i] = "w_filename"]
    /\ UNCHANGED <<httpVars, dbVars, REQUEST_QUEUE, queue_lock, SCAN_DB, scan_lock, cpc, qpc,
                   req, scan_id, filename, calls, threads>>

WorkerSetFilename(i) ==
    /\ pc[i] = "w_filename"
    /\ objs' = [objs EXCEPT ![req[i]].filename = filename[i]]
    /\ pc' = [pc EXCEPT ![i] = "w_error"]
    /\ UNCHANGED <<httpVars, dbVars, REQUEST_QUEUE, queue_lock, SCAN_DB, scan_lock, cpc, qpc,
                   req, scan_id, filename, calls, threads>>

\* variant: after a failed download the worker tries the download once more
WorkerSetError_Retry(i) ==
    /\ pc[i] = "w_error"
    /\ objs' = [objs EXCEPT ![req[i]].error = ErrorFor(filename[i])]
    /\ queue_lock' = Free
    /\ pc' = [pc EXCEPT ![i] = IF filename[i] = None /\ Len(calls[i]) < 3
                               THEN "w_download" ELSE "done"]
    /\ UNCHANGED <<httpVars, dbVars, REQUEST_QUEUE, SCAN_DB, scan_lock, cpc, qpc, req, scan_id,
                   filename, calls, threads>>

\* req['error'] = ...; the with block is left
WorkerSetError(i) ==
    /\ pc[i] = "w_error"
    /\ objs' = [objs EXCEPT ![req[i]].error = ErrorFor(filename[i])]
    /\ queue_lock' = Free
    /\ pc' = [pc EXCEPT ![i] = "done"]
    /\ UNCHANGED <<httpVars, dbVars, REQUEST_QUEUE, SCAN_DB, scan_lock, cpc, qpc, req, scan_id,
                   filename, calls, threads>>

\* except branch: req['status'] = 'Failed'
WorkerExceptStatus(i) ==
    /\ pc[i] \in {"e1_status", "e2_status"}
    /\ objs' = [objs EXCEPT ![req[i]].status = "Failed"]
    /\ pc' = [pc EXCEPT ![i] = IF pc[i] = "e1_status" THEN "e1_error"
                               ELSE "e2_error"]
    /\ UNCHANGED <<httpVars, dbVars, REQUEST_QUEUE, queue_lock, SCAN_DB, scan_lock, cpc, qpc,
                   req, scan_id, filename, calls, threads>>

\* except branch: req['error'] = ...
WorkerExceptError(i) ==
    /\ pc[i] \in {"e1_error", "e2_error"}
    /\ objs' = [objs EXCEPT ![req[i]].error =
                  ExcError(IF pc[i] = "e1_error" THEN "e1" ELSE "e2")]
    /\ queue_lock' = Free
    /\ pc' = [pc EXCEPT ![i] = "done"]
    /\ UNCHANGED <<httpVars, dbVars, REQUEST_QUEUE, SCAN_DB, scan_lock, cpc, qpc, req, scan_id,
                   filename, calls, threads>>

\* ------------------------------------------------------------------------
\* queue_status
\* ------------------------------------------------------------------------
\* variant: queue_status reads the list without taking queue_lock
StatusLock_NoLock ==
    /\ qpc = "idle"
    /\ qpc' = "read"
    /\ UNCHANGED <<httpVars, dbVars, REQUEST_QUEUE, objs, queue_lock, SCAN_DB, scan_lock, pc, cpc,
                   req, scan_id, filename, calls, threads>>

\* with queue_lock: of queue_status
StatusLock ==
    /\ qpc = "idle"
    /\ CanAcquire(queue_lock, Q)
    /\ queue_lock' = Q
    /\ qpc' = "read"
    /\ UNCHANGED <<httpVars, dbVars, REQUEST_QUEUE, objs, SCAN_DB, scan_lock, pc, cpc, req,
                   scan_id, filename, calls, threads>>

\* the list queue_status answers with: jsonify(list(REQUEST_QUEUE)) is
\* evaluated by the handler while it is inside its with block
QueueStatusResponse == Snapshot(REQUEST_QUEUE)

\* the with block is left and the response is sent
StatusRead ==
    /\ qpc = "read"
    /\ queue_lock' = Free
    /\ qpc' = "idle"
    /\ UNCHANGED <<httpVars, dbVars, REQUEST_QUEUE, objs, SCAN_DB, scan_lock, pc, cpc, req,
                   scan_id, filename, calls, threads>>

\* ------------------------------------------------------------------------
\* clear_queue
\* ------------------------------------------------------------------------
ClearLock ==
    /\ cpc = "idle"
    /\ CanAcquire(queue_lock, C)
    /\ queue_lock' = C
    /\ cpc' = "clear"
    /\ UNCHANGED <<httpVars, dbVars, REQUEST_QUEUE, objs, SCAN_DB, scan_lock, pc, qpc, req,
                   scan_id, filename, calls, threads>>

\* variant: only the records of finished requests are removed
ClearQueue_OnlyFinished ==
    /\ cpc = "clear"
    /\ REQUEST_QUEUE' = SelectSeq(REQUEST_QUEUE,
                                  LAMBDA id : objs[id].status = "Pending")
    /\ queue_lock' = Free
    /\ cpc' = "scan"
    /\ UNCHANGED <<httpVars, dbVars, objs, SCAN_DB, scan_lock, pc, qpc, req,
                   scan_id, filename, calls, threads>>

\* variant: clear_queue keeps queue_lock while it clears SCAN_DB
ClearQueue_KeepLock ==
    /\ cpc = "clear"
    /\ REQUEST_QUEUE' = <<>>
    /\ cpc' = "scan"
    /\ UNCHANGED <<httpVars, dbVars, objs, queue_lock, SCAN_DB, scan_lock, pc, qpc, req,
                   scan_id, filename, calls, threads>>

\* REQUEST_QUEUE.clear()
ClearQueue ==
    /\ cpc = "clear"
    /\ REQUEST_QUEUE' = <<>>
    /\ queue_lock' = Free
    /\ cpc' = "scan"
    /\ UNCHANGED <<httpVars, dbVars, objs, SCAN_DB, scan_lock, pc, qpc, req, scan_id, filename,
                   calls, threads>>

ClearScanLock ==
    /\ cpc = "scan"
    /\ CanAcquire(scan_lock, C)
    /\ scan_lock' = C
    /\ cpc' = "scan_clear"
    /\ UNCHANGED <<httpVars, dbVars, REQUEST_QUEUE, objs, queue_lock, SCAN_DB, pc, qpc, req,
                   scan_id, filename, calls, threads>>

\* SCAN_DB.clear(); return "Queue cleared", 200
ClearScanDb ==
    /\ cpc = "scan_clear"
    /\ SCAN_DB' = {}
    /\ scan_lock' = Free
    /\ cpc' = "idle"
    /\ UNCHANGED <<httpVars, dbVars, REQUEST_QUEUE, objs, queue_lock, pc, qpc, req, scan_id,
                   filename, calls, threads>>

\* ------------------------------------------------------------------------
WorkerStep(i) ==
    \/ WorkerFindLock(i)
    \/ WorkerLookup(i)
    \/ \E exc \in {"e1", "e2"} : WorkerCreateFails(i, exc)
    \/ WorkerCreateReach(i)
    \/ CreateScanPut(i)
    \/ WorkerDownloadFails(i)
    \/ WorkerDownloadReach(i)
    \/ DownloadScanGet(i)
    \/ WorkerWriteLock(i)
    \/ WorkerSetStatus(i)
    \/ WorkerSetFilename(i)
    \/ WorkerSetError(i)
    \/ WorkerExceptStatus(i)
    \/ WorkerExceptError(i)

SubmitStep(i) ==
    \/ \E form \in Forms : SubmitInvalid(i, form)
    \/ \E form \in Forms : SubmitLock(i, form)
    \/ SubmitInsert(i)
    \/ SubmitStart(i)

StatusStep == StatusLock \/ StatusRead

ClearStep == ClearLock \/ ClearQueue \/ ClearScanLock \/ ClearScanDb

RadNext ==
    \/ \E i \in Requests : SubmitStep(i)
    \/ \E i \in Requests : WorkerStep(i)
    \/ StatusStep
    \/ ClearStep

\* ------------------------------------------------------------------------
\* Main application: initial state
\* ------------------------------------------------------------------------
DbInit ==
    /\ User = <<>>
    /\ Patient = <<>>
    /\ Assessment = <<>>
    /\ Treatment = <<>>
    /\ LabReport = <<>>
    /\ session = <<>>
    /\ today = 1

\* the sample entry the module creates the patients dictionary with
SamplePatients ==
    "UHID001" :> [details |-> [department |-> "Psychiatry",
                               diagnosis |-> "Major Depressive Disorder",
                               record_id |-> "1"]]

\* no request has been answered yet
NoResponse == [route |-> None, status |-> 0, body |-> [none |-> None],
               external |-> FALSE]

\* the history file does not exist and downloads/ is empty
HttpInit ==
    /\ patients = SamplePatients
    /\ history = <<>>
    /\ downloads = {}
    /\ response = NoResponse

Init == RadInit /\ DbInit /\ HttpInit

RadSpec == Init /\ [][RadNext]_vars

\* fairness: a handler that has passed validation runs to its end, a thread
\* inside a lock section leaves it, and every started worker keeps being
\* scheduled and gets the lock it waits for (each HTTP call returns, fails or
\* times out)
RadFairness ==
    /\ \A i \in Requests : WF_radVars(SubmitInsert(i) \/ SubmitStart(i))
    /\ \A i \in Requests : SF_radVars(WorkerStep(i))
    /\ WF_radVars(StatusRead)
    /\ WF_radVars(ClearQueue \/ ClearScanDb)

RadFairSpec == RadSpec /\ RadFairness

\* fairness for the threads that wait for a lock: in addition, the thread of
\* clear_queue gets scan_lock when it is free again and again
RadLockFairSpec == RadFairSpec /\ SF_radVars(ClearScanLock)

\* ========================================================================
\* Properties of the radiology blueprint
\* ========================================================================
InQueue(i) == \E k \in 1..Len(REQUEST_QUEUE) : REQUEST_QUEUE[k] = i

\* positions of a started worker that has not finished
WorkerRunning == {"w_find", "w_lookup", "w_create", "cs_put", "w_download",
                  "ds_get", "w_lock", "w_status", "w_filename", "w_error",
                  "e1", "e1_status", "e1_error", "e2", "e2_status",
                  "e2_error"}

\* positions inside a "with queue_lock:" block
SubmitSection == {"s_insert"}
WorkerSection == {"w_lookup", "w_status", "w_filename", "w_error",
                  "e1_status", "e1_error", "e2_status", "e2_error"}

\* POSTs that passed validation and have been answered
Answered == {i \in Requests : pc[i] \in WorkerRunning \cup {"done"}}

RECURSIVE Sum(_, _)
Sum(f, S) == IF S = {} THEN 0
             ELSE LET x == CHOOSE y \in S : TRUE IN f[x] + Sum(f, S \ {x})

\* number of worker threads started so far
Started == Sum(threads, Requests)

\* C1: every accepted POST to radiology_submit adds exactly one 'Pending'
\* record at the head of REQUEST_QUEUE and starts exactly one worker for that
\* record's id, however many workers are running: once n accepted POSTs have
\* been answered, n workers have been started, one per record id.
C1_OneWorkerPerSubmission ==
    /\ [](/\ Started = Cardinality(Answered)
          /\ \A i \in Answered : threads[objs[i].id] = 1)
    /\ [][\A i \in Requests :
            /\ (pc[i] = "s_insert" /\ pc'[i] # pc[i]) =>
                  /\ Len(REQUEST_QUEUE') = Len(REQUEST_QUEUE) + 1
                  /\ REQUEST_QUEUE'[1] = i
                  /\ objs'[i].status = "Pending"
                  /\ \A j \in Requests : InQueue(j) => InQueue(j)'
            /\ (pc[i] = "s_start" /\ pc'[i] # pc[i]) =>
                  /\ threads' = [threads EXCEPT ![objs[i].id] = @ + 1]
                  /\ pc'[i] = "w_find"]_radVars

\* a POST is answered while the worker of an earlier one is still running
C1_Witness ==
    /\ Started = 2
    /\ \A i \in {1, 2} : pc[i] \in WorkerRunning

\* C2: every write to REQUEST_QUEUE and to a record's status, filename or
\* error is made by the thread that holds queue_lock, queue_status builds its
\* response holding it, and at most one thread is inside a queue_lock section.
C2_WritesUnderQueueLock ==
    /\ [](/\ \A i \in Requests :
                /\ pc[i] \in SubmitSection => queue_lock = H(i)
                /\ pc[i] \in WorkerSection => queue_lock = W(i)
          /\ cpc = "clear" => queue_lock = C
          /\ qpc = "read" => queue_lock = Q)
    /\ [][\A i \in Requests :
            /\ (i \in DOMAIN objs /\ objs'[i] # objs[i]) =>
                  queue_lock = W(i) /\ pc[i] \in WorkerSection
            /\ (InQueue(i)' /\ ~InQueue(i)) =>
                  queue_lock = H(i) /\ pc[i] \in SubmitSection
            /\ (InQueue(i) /\ ~InQueue(i)') =>
                  queue_lock = C /\ cpc = "clear"]_radVars

\* a worker is in the middle of its write while another worker and the
\* other handlers wait
C2_Witness ==
    \E i, j \in Requests :
        /\ pc[i] = "w_filename"
        /\ pc[j] \in {"w_lock", "e1", "e2", "w_find"}

\* C3: under fair scheduling every record that is in REQUEST_QUEUE with
\* status 'Pending' is later removed from the queue or gets status
\* 'Completed' or 'Failed'.
C3_PendingEnds ==
    \A i \in Requests :
        (InQueue(i) /\ objs[i].status = "Pending")
            ~> (~InQueue(i) \/ objs[i].status \in {"Completed", "Failed"})

\* a record that stayed in the queue was failed by the general except branch
C3_Witness ==
    \E i \in Requests :
        /\ InQueue(i) /\ pc[i] = "done"
        /\ objs[i].status = "Failed"
        /\ objs[i].error = "An unexpected error occurred"

\* C4: when the create call succeeded and download_scan returned None, the
\* worker leaves the record with status 'Failed', filename None and error
\* 'Download failed', and after that makes no HTTP call and no change to the
\* record.
C4_DownloadFailedStops ==
    /\ [](\A i \in Requests :
            (pc[i] = "done" /\ scan_id[i] # 0 /\ filename[i] = None) =>
                /\ objs[i].status = "Failed"
                /\ objs[i].filename = None
                /\ objs[i].error = "Download failed")
    /\ [][\A i \in Requests :
            pc[i] = "done" =>
                /\ pc'[i] = "done"
                /\ calls'[i] = calls[i]
                /\ objs'[i] = objs[i]]_radVars

\* a worker has finished after a download that the endpoint answered 404
C4_Witness ==
    \E i \in Requests :
        /\ pc[i] = "done" /\ scan_id[i] # 0 /\ filename[i] = None
        /\ scan_id[i] \notin SCAN_DB
        /\ objs[i].error = "Download failed"

\* C5: a worker issues at most one create call and at most one download
\* call, the download only after a create call that succeeded; after a failed
\* create call it issues no further call.
C5_SingleAttempt ==
    \A i \in Requests :
        /\ calls[i] \in {<<>>, <<"create">>, <<"create", "download">>}
        /\ Len(calls[i]) = 2 => scan_id[i] # 0
        /\ (pc[i] \in {"e1", "e1_status", "e1_error",
                       "e2", "e2_status", "e2_error"}
            \/ (pc[i] = "done" /\ req[i] # 0 /\ scan_id[i] = 0))
             => calls[i] = <<"create">>

\* a worker has finished after a failed create call
C5_Witness ==
    \E i \in Requests :
        /\ pc[i] = "done" /\ req[i] # 0 /\ scan_id[i] = 0
        /\ objs[i].status = "Failed"

\* C6: REQUEST_QUEUE and the list queue_status answers with hold the records
\* newest first (a record inserted later stands before every record inserted
\* earlier), and no worker step changes the queue.
C6_NewestFirst ==
    /\ [](\A k, l \in 1..Len(QueueStatusResponse) :
            k < l => QueueStatusResponse[k].id > QueueStatusResponse[l].id)
    /\ [][\A i \in Requests :
            (pc[i] \in WorkerRunning /\ pc'[i] # pc[i]) =>
                REQUEST_QUEUE' = REQUEST_QUEUE]_radVars

\* queue_status is answering with two records of which one has been updated
C6_Witness ==
    /\ qpc = "read"
    /\ Len(QueueStatusResponse) >= 2
    /\ \E k \in 1..Len(QueueStatusResponse) :
          QueueStatusResponse[k].status = "Completed"

\* C18: a POST to radiology_submit with a missing or empty uhid, department,
\* scan_type or body_part is answered with 400 (position "rejected"): no
\* record is built from such a form, the step leaves REQUEST_QUEUE, SCAN_DB
\* and the records unchanged and starts no worker, and nothing happens for
\* that POST afterwards.
C18_InvalidSubmitRejected ==
    /\ [](\A i \in Requests :
            /\ i \in DOMAIN objs =>
                  /\ objs[i].uhid # ""
                  /\ objs[i].department # ""
                  /\ objs[i].scan_type # ""
                  /\ objs[i].body_part # ""
            /\ pc[i] = "rejected" =>
                  /\ i \notin DOMAIN objs
                  /\ ~InQueue(i)
                  /\ threads[i] = 0
                  /\ calls[i] = <<>>)
    /\ [][\A i \in Requests :
            /\ (pc[i] = "new" /\ pc'[i] = "rejected") =>
                  /\ REQUEST_QUEUE' = REQUEST_QUEUE
                  /\ SCAN_DB' = SCAN_DB
                  /\ objs' = objs
                  /\ threads' = threads
                  /\ calls' = calls
            /\ pc[i] = "rejected" => pc'[i] = "rejected"]_radVars

\* a POST was rejected while the worker of an earlier, accepted POST runs and
\* its record is in the queue
C18_Witness ==
    \E i, j \in Requests :
        /\ pc[i] = "rejected"
        /\ pc[j] \in WorkerRunning
        /\ InQueue(j)

MidWrite(i) == \E j \in Requests :
    /\ req[j] = i
    /\ pc[j] \in {"w_filename", "w_error", "e1_error", "e2_error"}

\* C23: a radiology record's status only moves forward: the record is created
\* 'Pending', its status changes at most once, from 'Pending' to 'Completed'
\* or 'Failed', and once it is 'Completed' or 'Failed' and the lock section
\* that set the status has been left, its status, filename and error never
\* change again.
C23_StatusMovesForward ==
    /\ [][\A i \in Requests :
            /\ (i \notin DOMAIN objs /\ i \in DOMAIN objs') =>
                  objs'[i].status = "Pending"
            /\ (i \in DOMAIN objs /\ objs'[i].status # objs[i].status) =>
                  /\ objs[i].status = "Pending"
                  /\ objs'[i].status \in {"Completed", "Failed"}
            /\ (/\ i \in DOMAIN objs
                /\ objs[i].status \in {"Completed", "Failed"}
                /\ ~MidWrite(i)) =>
                  /\ objs'[i].status = objs[i].status
                  /\ objs'[i].filename = objs[i].filename
                  /\ objs'[i].error = objs[i].error]_radVars

\* one record has been completed and another one failed, both workers have
\* finished and the queue has been cleared since
C23_Witness ==
    \E i, j \in Requests :
        /\ pc[i] = "done" /\ pc[j] = "done"
        /\ i \in DOMAIN objs /\ j \in DOMAIN objs
        /\ objs[i].status = "Completed"
        /\ objs[j].status = "Failed"
        /\ REQUEST_QUEUE = <<>>

\* C24: every record of a list that queue_status answers with is
\* field-consistent, whatever workers are running: 'Pending' comes with
\* filename None and error None, 'Completed' with a filename and error None,
\* 'Failed' with filename None and an error.
C24_ReaderSeesWholeRecords ==
    qpc = "read" =>
        \A k \in 1..Len(QueueStatusResponse) :
            LET r == QueueStatusResponse[k]
            IN  CASE r.status = "Pending" ->
                        r.filename = None /\ r.error = None
                  [] r.status = "Completed" ->
                        r.filename \notin {None, ""} /\ r.error = None
                  [] r.status = "Failed" ->
                        r.filename = None /\ r.error # None
                  [] OTHER -> FALSE

\* queue_status answers with a failed record while a worker that has its
\* result waits for queue_lock
C24_Witness ==
    /\ qpc = "read"
    /\ \E k \in 1..Len(QueueStatusResponse) :
          QueueStatusResponse[k].status = "Failed"
    /\ \E i \in Requests : pc[i] \in {"w_lock", "e1", "e2"}

\* C25: clear_queue does not harm the requests that survive it: once the
\* download call of a worker has reached download_scan_api (its create call
\* has been answered with a scan id before), the record, if it is in
\* REQUEST_QUEUE when the worker has finished, is 'Completed'.
C25_SurvivorsComplete ==
    \A i \in Requests :
        [](pc[i] = "ds_get" =>
              []((pc[i] = "done" /\ InQueue(i)) =>
                    objs[i].status = "Completed"))

C27_WorkerWritesOwnRecord ==
    [][\A i \in Requests :
          WorkerStep(i) =>
             /\ REQUEST_QUEUE' = REQUEST_QUEUE
             /\ DOMAIN objs' = DOMAIN objs
             /\ \A j \in DOMAIN objs :
                   IF objs[j].id = i
                   THEN objs'[j] = [objs[j] EXCEPT
                                       !.status = objs'[j].status,
                                       !.filename = objs'[j].filename,
                                       !.error = objs'[j].error]
                   ELSE objs'[j] = objs[j]]_radVars

\* a worker is writing its result while a record submitted later stands
\* before its own at the head of the queue
C27_Witness ==
    \E i \in Requests :
        /\ pc[i] = "w_filename"
        /\ objs[i].status = "Completed"
        /\ Len(REQUEST_QUEUE) = 2
        /\ REQUEST_QUEUE[2] = i


\* ========================================================================
\* Part II: main application (src/venkat.py)
\* ========================================================================
\* Strings that the code takes apart (uhids, vital signs) are sequences of
\* one-character strings.  The parsers below are exact for strings over the
\* alphabet of the inputs used here: letters, digits, "-" and ".".
Digits == <<"0", "1", "2", "3", "4", "5", "6", "7", "8", "9">>
IsDigit(c) == \E k \in 1..10 : Digits[k] = c
DigitVal(c) == (CHOOSE k \in 1..10 : Digits[k] = c) - 1

UHID == <<"U", "H", "I", "D">>
U001 == UHID \o <<"0", "0", "1">>
U002 == UHID \o <<"0", "0", "2">>
\* request.form.get(...) of a field that was not sent
PyNone == <<"<None>">>

RECURSIVE DigitsValue(_)
DigitsValue(d) ==
    IF d = <<>> THEN 0
    ELSE DigitsValue(SubSeq(d, 1, Len(d) - 1)) * 10 + DigitVal(d[Len(d)])

\* int(s): [ok |-> FALSE] stands for ValueError
PyInt(s) ==
    LET neg == s # <<>> /\ Head(s) = "-"
        body == IF neg THEN Tail(s) ELSE s
    IN  IF body # <<>> /\ \A k \in 1..Len(body) : IsDigit(body[k])
        THEN [ok |-> TRUE,
              val |-> IF neg THEN 0 - DigitsValue(body) ELSE DigitsValue(body)]
        ELSE [ok |-> FALSE, val |-> 0]

\* float(s) in tenths, for strings with at most one decimal
PyFloat(s) ==
    LET dots == {k \in 1..Len(s) : s[k] = "."}
    IN  IF dots = {} THEN [ok |-> PyInt(s).ok, val |-> PyInt(s).val * 10]
        ELSE LET k == CHOOSE x \in dots : TRUE
                 ip == SubSeq(s, 1, k - 1)
                 fp == SubSeq(s, k + 1, Len(s))
             IN  IF /\ Cardinality(dots) = 1
                    /\ ip # <<>> /\ \A j \in 1..Len(ip) : IsDigit(ip[j])
                    /\ Len(fp) = 1 /\ IsDigit(fp[1])
                 THEN [ok |-> TRUE,
                       val |-> DigitsValue(ip) * 10 + DigitVal(fp[1])]
                 ELSE [ok |-> FALSE, val |-> 0]

\* s.replace('UHID', '')
RECURSIVE ReplaceUHID(_)
ReplaceUHID(s) ==
    IF s = <<>> THEN <<>>
    ELSE IF Len(s) >= 4 /\ SubSeq(s, 1, 4) = UHID
         THEN ReplaceUHID(SubSeq(s, 5, Len(s)))
         ELSE <<Head(s)>> \o ReplaceUHID(Tail(s))

RECURSIVE DigitsOf(_)
DigitsOf(n) ==
    IF n < 10 THEN <<Digits[n + 1]>>
    ELSE DigitsOf(n \div 10) \o <<Digits[(n % 10) + 1]>>

RECURSIVE ZeroPad(_, _)
ZeroPad(d, width) == IF Len(d) >= width THEN d ELSE ZeroPad(<<"0">> \o d, width)

\* f"{n:03}": zero padded to width 3, the sign counts
Format03(n) ==
    IF n >= 0 THEN ZeroPad(DigitsOf(n), 3)
    ELSE <<"-">> \o ZeroPad(DigitsOf(0 - n), 2)

\* uhids of the rows of a table
Uhids(table) == {table[k].uhid : k \in 1..Len(table)}

\* generate_uhid(): last_patient is the row with the highest primary key
generate_uhid ==
    IF Len(Patient) = 0 THEN U001
    ELSE LET last_id == PyInt(ReplaceUHID(Patient[Len(Patient)].uhid))
         IN  IF last_id.ok THEN UHID \o Format03(last_id.val + 1)
             ELSE U001

\* variant: the uhid column is declared without unique=True
PatientConstraints_NoUnique(name, uhid) ==
    /\ name # PyNone
    /\ uhid # PyNone

\* the constraints of the patient table: name and uhid NOT NULL, uhid UNIQUE.
\* A commit that breaks one raises IntegrityError and stores nothing.
PatientConstraints(name, uhid) ==
    /\ name # PyNone
    /\ uhid # PyNone
    /\ uhid \notin Uhids(Patient)

\* vital signs as typed into the form
BpStrings == {<<>>, <<"1", "2", "0">>, <<"1", "5", "0">>, <<"a">>}
SugarStrings == {<<>>, <<"9", "0">>, <<"6", "0">>, <<"a">>}
TempStrings == {<<>>, <<"9", "8", ".", "6">>, <<"1", "0", "1">>, <<"a">>}
NameStrings == {PyNone, <<"n">>}
EntryForms == [patient_name : NameStrings, bp_sys : BpStrings,
               bp_dia : BpStrings, sugar : SugarStrings, temp : TempStrings]

\* the try block of patient_entry raises no ValueError
VitalsValid(form) ==
    /\ (form.bp_sys # <<>> /\ form.bp_dia # <<>>) =>
            PyInt(form.bp_sys).ok /\ PyInt(form.bp_dia).ok
    /\ form.sugar # <<>> => PyInt(form.sugar).ok
    /\ form.temp # <<>> => PyFloat(form.temp).ok

abnormal_bp(form) ==
    /\ form.bp_sys # <<>> /\ form.bp_dia # <<>>
    /\ PyInt(form.bp_sys).val > 140 \/ PyInt(form.bp_dia).val > 90

abnormal_sugar(form) ==
    /\ form.sugar # <<>>
    /\ PyInt(form.sugar).val < 70 \/ PyInt(form.sugar).val > 180

abnormal_temp(form) ==
    /\ form.temp # <<>>
    /\ PyFloat(form.temp).val < 970 \/ PyFloat(form.temp).val > 990

\* patient_entry (POST)
patient_entry(form) ==
    /\ Len(Patient) < MaxPatients
    /\ LET uhid == generate_uhid
       IN  Patient' =
             IF VitalsValid(form) /\ PatientConstraints(form.patient_name, uhid)
             THEN Append(Patient,
                         [id |-> Len(Patient) + 1, uhid |-> uhid,
                          abnormal_bp |-> abnormal_bp(form),
                          abnormal_sugar |-> abnormal_sugar(form),
                          abnormal_temp |-> abnormal_temp(form)])
             ELSE Patient
    /\ UNCHANGED <<httpVars, radVars, User, Assessment, Treatment, LabReport, session, today>>

\* patient_registration (POST) with a uhid chosen by the user
patient_registration(uhid, name) ==
    /\ Len(Patient) < MaxPatients
    /\ Patient' =
         IF uhid \notin Uhids(Patient) /\ PatientConstraints(name, uhid)
         THEN Append(Patient,
                     [id |-> Len(Patient) + 1, uhid |-> uhid,
                      abnormal_bp |-> FALSE, abnormal_sugar |-> FALSE,
                      abnormal_temp |-> FALSE])
         ELSE Patient
    /\ UNCHANGED <<httpVars, radVars, User, Assessment, Treatment, LabReport, session, today>>

\* uhids typed into the registration form
RegUhids == {U001, U002, <<"X">>, <<"5">>, PyNone}

PatientNext ==
    \/ \E form \in EntryForms : patient_entry(form)
    \/ \E uhid \in RegUhids, name \in NameStrings :
            patient_registration(uhid, name)

PatientSpec == Init /\ [][PatientNext]_vars

\* C7: no two Patient rows have the same uhid, whatever patient_entry and
\* patient_registration submissions were made.
C7_UhidUnique ==
    \A k, l \in 1..Len(Patient) : k # l => Patient[k].uhid # Patient[l].uhid

\* both routes have stored patients and the uhid patient_entry would use next
\* is already taken: only the table's constraint keeps the uhids distinct
C7_Witness ==
    /\ Len(Patient) >= 2
    /\ generate_uhid \in Uhids(Patient)

\* C8: the uhid returned by generate_uhid is the uhid of no existing Patient
\* row (so that a patient_entry submission with valid vitals stores a new
\* patient).
C8_GeneratedUhidFresh == generate_uhid \notin Uhids(Patient)

\* a submitted value (a non-empty field) that reads as a number
Submitted(s) == s # <<>> /\ PyInt(s).ok
\* a non-empty field that reads as no number
NonNumeric(s, parse(_)) == s # <<>> /\ ~parse(s).ok

\* C21: the abnormal flags stored by patient_entry are derived from the
\* submitted vitals: in the row a submission creates, abnormal_bp is true
\* exactly when a submitted systolic value is above 140 or a submitted
\* diastolic value is above 90, and abnormal_sugar exactly when a submitted
\* sugar value is below 70 or above 180; a submission with a non-numeric
\* vital creates no Patient row.
C21_FlagsFromVitals ==
    [][\A form \in EntryForms :
          patient_entry(form) =>
            LET created == Len(Patient') = Len(Patient) + 1
                row == Patient'[Len(Patient')]
            IN  /\ created =>
                     /\ row.abnormal_bp <=>
                          \/ Submitted(form.bp_sys)
                                /\ PyInt(form.bp_sys).val > 140
                          \/ Submitted(form.bp_dia)
                                /\ PyInt(form.bp_dia).val > 90
                     /\ row.abnormal_sugar <=>
                          /\ Submitted(form.sugar)
                          /\ \/ PyInt(form.sugar).val < 70
                             \/ PyInt(form.sugar).val > 180
                /\ (\/ NonNumeric(form.bp_sys, PyInt)
                    \/ NonNumeric(form.bp_dia, PyInt)
                    \/ NonNumeric(form.sugar, PyInt)
                    \/ NonNumeric(form.temp, PyFloat)) => ~created]_vars

\* ------------------------------------------------------------------------
\* Session
\* ------------------------------------------------------------------------
Usernames == {"u1"}
Passwords == {"pw", "guess"}
\* the role column's default, chosen in the registration form
Roles == {"doctor"}

\* register (POST)
register(username, password, role) ==
    /\ User' =
         IF \E k \in 1..Len(User) : User[k].username = username
         THEN User
         ELSE Append(User, [username |-> username, password |-> password,
                            role |-> role])
    /\ UNCHANGED <<httpVars, radVars, Patient, Assessment, Treatment, LabReport,
                   session, today>>

\* login (POST)
login(username, password) ==
    /\ session' =
         IF \E k \in 1..Len(User) :
                User[k].username = username /\ User[k].password = password
         THEN LET user == User[CHOOSE k \in 1..Len(User) :
                                    User[k].username = username]
              IN  ("logged_in" :> "True") @@ ("username" :> user.username)
                    @@ ("user_role" :> user.role) @@ session
         ELSE session
    /\ UNCHANGED <<httpVars, radVars, User, Patient, Assessment, Treatment, LabReport,
                   today>>

\* logout
logout ==
    /\ session' = [k \in DOMAIN session \ {"logged_in", "username",
                                           "user_role"} |-> session[k]]
    /\ UNCHANGED <<httpVars, radVars, User, Patient, Assessment, Treatment, LabReport, today>>

\* midnight passes
NextDay ==
    /\ today < MaxDay
    /\ today' = today + 1
    /\ UNCHANGED <<httpVars, radVars, User, Patient, Assessment, Treatment, LabReport, session>>

\* ------------------------------------------------------------------------
\* Visit forms
\* ------------------------------------------------------------------------
\* the date string of day d
IsoDate(d) == "2024-01-0" \o ToString(d)
\* values of the visiting_date parameter: absent, malformed, or a date
DateStrings == {"", "01/01/2024"} \cup {IsoDate(d) : d \in Days}

\* datetime.strptime(s, '%Y-%m-%d').date(); 0 stands for ValueError
Strptime(s) ==
    IF \E d \in Days : IsoDate(d) = s
    THEN CHOOSE d \in Days : IsoDate(d) = s
    ELSE 0

\* datetime.strptime(...).date() if visiting_date_str else date.today()
VisitingDate(visiting_date_str) ==
    IF visiting_date_str # "" THEN Strptime(visiting_date_str) ELSE today

\* rows held by the three visit tables
VisitRows == Len(Assessment) + Len(Treatment) + Len(LabReport)

\* positions of the rows matching filter_by(uhid=..., visit_date=...)
Matching(table, uhid, visit_date) ==
    {k \in 1..Len(table) :
        table[k].uhid = uhid /\ table[k].visit_date = visit_date}

\* .first(): the matching row with the lowest primary key
First(table, uhid, visit_date) ==
    CHOOSE k \in Matching(table, uhid, visit_date) :
        \A l \in Matching(table, uhid, visit_date) : k <= l

\* what a form stores in the JSON columns
Payloads == {"a", "b"}
\* uhids in the URLs of the visit forms and of the patients registered for them
VisitUhids == {U001, U002}

\* assessment_form (POST); radio is the previous_diagnosis_radio field, whose
\* absence makes the handler raise TypeError
assessment_form(uhid, visiting_date_str, radio, data) ==
    /\ VisitRows < MaxRows
    /\ LET visiting_date == VisitingDate(visiting_date_str)
       IN  Assessment' =
             IF /\ "username" \in DOMAIN session
                /\ visiting_date # 0
                /\ uhid \in Uhids(Patient)
                /\ radio # "None"
             THEN IF Matching(Assessment, uhid, visiting_date) # {}
                  THEN [Assessment EXCEPT
                          ![First(Assessment, uhid, visiting_date)].data = data]
                  ELSE Append(Assessment,
                              [uhid |-> uhid, visit_date |-> visiting_date,
                               data |-> data])
             ELSE Assessment
    /\ UNCHANGED <<httpVars, radVars, User, Patient, Treatment, LabReport, session, today>>

\* variant: the lookup before the insert is the one made at the top of the
\* handler, LabReport.query.filter_by(uhid=uhid).first() on another date
lab_reports_form_StaleLookup(uhid, visiting_date_str, saved, data) ==
    /\ VisitRows < MaxRows
    /\ LET visiting_date == VisitingDate(visiting_date_str)
       IN  LabReport' =
             IF /\ "username" \in DOMAIN session
                /\ visiting_date # 0
                /\ uhid \in Uhids(Patient)
                /\ saved
             THEN Append(LabReport,
                         [uhid |-> uhid, visit_date |-> visiting_date,
                          data |-> data])
             ELSE LabReport
    /\ UNCHANGED <<httpVars, radVars, User, Patient, Assessment, Treatment, session, today>>

\* lab_reports_form (POST); saved is false when saving an uploaded file
\* raises, which the handler answers with a rollback
lab_reports_form(uhid, visiting_date_str, saved, data) ==
    /\ VisitRows < MaxRows
    /\ LET visiting_date == VisitingDate(visiting_date_str)
       IN  LabReport' =
             IF /\ "username" \in DOMAIN session
                /\ visiting_date # 0
                /\ uhid \in Uhids(Patient)
                /\ saved
             THEN IF Matching(LabReport, uhid, visiting_date) # {}
                  THEN [LabReport EXCEPT
                          ![First(LabReport, uhid, visiting_date)].data = data]
                  ELSE Append(LabReport,
                              [uhid |-> uhid, visit_date |-> visiting_date,
                               data |-> data])
             ELSE LabReport
    /\ UNCHANGED <<httpVars, radVars, User, Patient, Assessment, Treatment, session, today>>

\* treatment_form (POST); meds_ok is false when the medication lists of the
\* form differ in length, which raises IndexError inside the try block.
\* A new row is built without visit_date: the column default date.today
\* fills it in.
treatment_form(uhid, visiting_date_str, meds_ok, data) ==
    /\ VisitRows < MaxRows
    /\ LET visiting_date == VisitingDate(visiting_date_str)
       IN  Treatment' =
             IF /\ "username" \in DOMAIN session
                /\ uhid \in Uhids(Patient)
                /\ visiting_date # 0
                /\ meds_ok
             THEN IF Matching(Treatment, uhid, visiting_date) # {}
                  THEN [Treatment EXCEPT
                          ![First(Treatment, uhid, visiting_date)].data = data]
                  ELSE Append(Treatment,
                              [uhid |-> uhid, visit_date |-> today,
                               data |-> data])
             ELSE Treatment
    /\ UNCHANGED <<httpVars, radVars, User, Patient, Assessment, LabReport, session, today>>

\* save_prescription (POST); the date comes from the form, a missing or
\* malformed one raises before anything is stored
save_prescription(uhid, visiting_date_str) ==
    /\ VisitRows < MaxRows
    /\ LET visiting_date == Strptime(visiting_date_str)
       IN  Treatment' =
             IF /\ "username" \in DOMAIN session
                /\ visiting_date # 0
                /\ uhid \in Uhids(Patient)
                /\ Matching(Treatment, uhid, visiting_date) = {}
             THEN Append(Treatment,
                         [uhid |-> uhid, visit_date |-> visiting_date,
                          data |-> IF Matching(Assessment, uhid,
                                               visiting_date) # {}
                                   THEN Assessment[First(Assessment, uhid,
                                                   visiting_date)].data
                                   ELSE "{}"])
             ELSE Treatment
    /\ UNCHANGED <<httpVars, radVars, User, Patient, Assessment, LabReport, session, today>>

SessionStep ==
    \/ \E u \in Usernames, role \in Roles : register(u, "pw", role)
    \/ \E u \in Usernames, pw \in Passwords : login(u, pw)
    \/ logout
    \/ NextDay

RegisterStep == \E uhid \in VisitUhids : patient_registration(uhid, <<"n">>)

VisitNext ==
    \/ SessionStep
    \/ RegisterStep
    \/ \E uhid \in VisitUhids, s \in DateStrings, radio \in {"None", "yes"},
          data \in Payloads : assessment_form(uhid, s, radio, data)
    \/ \E uhid \in VisitUhids, s \in DateStrings, saved \in BOOLEAN,
          data \in Payloads : lab_reports_form(uhid, s, saved, data)
    \/ \E uhid \in VisitUhids, s \in DateStrings, meds_ok \in BOOLEAN,
          data \in Payloads : treatment_form(uhid, s, meds_ok, data)
    \/ \E uhid \in VisitUhids, s \in DateStrings : save_prescription(uhid, s)

VisitSpec == Init /\ [][VisitNext]_vars

\* (uhid, visit_date) of the rows of a visit table
VisitKey(row) == <<row.uhid, row.visit_date>>
OneRowPerVisit(table) ==
    \A k, l \in 1..Len(table) : k # l => VisitKey(table[k]) # VisitKey(table[l])

\* a step adds a row to the table only for a visit that had none, and
\* changes no key of an existing row
AddsOnlyNewVisits(old, new) ==
    /\ Len(new) \in {Len(old), Len(old) + 1}
    /\ \A k \in 1..Len(old) : VisitKey(new[k]) = VisitKey(old[k])
    /\ Len(new) = Len(old) + 1 =>
          \A k \in 1..Len(old) : VisitKey(old[k]) # VisitKey(new[Len(new)])

\* C9: Assessment and LabReport hold at most one row per (uhid, visit_date):
\* a POST for a visit that already has a row changes that row and adds none.
C9_OneRowPerVisit ==
    /\ [](OneRowPerVisit(Assessment) /\ OneRowPerVisit(LabReport))
    /\ [][/\ AddsOnlyNewVisits(Assessment, Assessment')
          /\ AddsOnlyNewVisits(LabReport, LabReport')]_dbVars

\* one visit has its assessment and its lab report, after midnight, and the
\* assessment of that visit holds what a later POST for it stored
C9_Witness ==
    /\ today > 1
    /\ \E k \in 1..Len(Assessment), l \in 1..Len(LabReport) :
          /\ VisitKey(Assessment[k]) = VisitKey(LabReport[l])
          /\ Assessment[k].visit_date < today
          /\ Assessment[k].data = "b"

\* C10: Treatment holds at most one row per (uhid, visit_date), whatever
\* treatment_form and save_prescription POSTs were made.
C10_OneTreatmentPerVisit == OneRowPerVisit(Treatment)

\* C11: a treatment saved for a visit is found again for that visit: a
\* treatment_form POST for patient uhid and visiting date d that stores its
\* data (user logged in, patient registered, date well formed, medication
\* lists consistent) leaves a Treatment row with that uhid and visit_date d,
\* the row a following GET or POST for (uhid, d) looks up.
C11_TreatmentFoundAgain ==
    [][\A uhid \in VisitUhids, s \in DateStrings, data \in Payloads :
          (/\ treatment_form(uhid, s, TRUE, data)
           /\ "username" \in DOMAIN session
           /\ uhid \in Uhids(Patient)
           /\ VisitingDate(s) # 0)
          => Matching(Treatment', uhid, VisitingDate(s)) # {}]_vars

\* C16: login guards protect patient data: while no user is logged in, no
\* request creates a Patient, Assessment, Treatment or LabReport row.
C16_LoginGuards ==
    []["logged_in" \notin DOMAIN session =>
          /\ Patient' = Patient
          /\ Assessment' = Assessment
          /\ Treatment' = Treatment
          /\ LabReport' = LabReport]_vars

\* role names given to role_required
RoleNames == Roles \cup {"admin"}

\* role_required(role_name): what the wrapper does with a request, which is
\* to redirect to the login page, redirect to the dashboard or run the
\* handler
role_required(role_name) ==
    IF "logged_in" \notin DOMAIN session THEN "login"
    ELSE IF "role" \notin DOMAIN session \/ session["role"] # role_name
    THEN "dashboard"
    ELSE "handler"

\* C17: the role check admits exactly the matching role: in a session made by
\* the login of a user with role R, role_required(R) runs the handler and
\* role_required of any other role redirects to the dashboard.
C17_RoleAdmitsMatching ==
    "logged_in" \in DOMAIN session =>
        \A role_name \in RoleNames :
            role_required(role_name) =
                IF role_name = session["user_role"] THEN "handler"
                ELSE "dashboard"

\* ========================================================================
\* Part III: JSON patient API (src/venkat.py) and labs blueprint (src/labs.py)
\* ========================================================================
API_KEY == "admin-4567-fghij-02"
\* values of the X-API-Key header: absent, a wrong key, the key
ApiKeys == {None, "wrong-key", API_KEY}

\* variant: a request without the header is let through
check_api_key_MissingOk(key) == key = API_KEY \/ key = None

\* check_api_key(): FALSE stands for abort(401)
check_api_key(key) == key = API_KEY

\* the answer of abort(401, description="Invalid API Key")
Unauthorized(route) ==
    [route |-> route, status |-> 401,
     body |-> [description |-> "Invalid API Key"], external |-> FALSE]

\* uhids in URLs and JSON bodies of the API
ApiUhids == {"UHID001", "UHID002", "UHID003"}
\* request.json: a JSON object with any of the keys the handler reads; the
\* empty object also stands for a request without a JSON body
ApiBodies ==
    {[k \in D |-> full[k]] :
        full \in [uhid : ApiUhids, name : {"n", "m"}, condition : {"c"}],
        D \in SUBSET {"uhid", "name", "condition"}}

\* get_patient (GET /api/patient/<uhid>)
get_patient(key, uhid) ==
    /\ response' =
         IF ~check_api_key(key) THEN Unauthorized("get_patient")
         ELSE IF uhid \notin DOMAIN patients
         THEN [route |-> "get_patient", status |-> 404,
               body |-> [error |-> "Patient not found"], external |-> FALSE]
         ELSE [route |-> "get_patient", status |-> 200,
               body |-> [details |-> patients[uhid]], external |-> FALSE]
    /\ UNCHANGED <<radVars, dbVars, patients, history, downloads>>

\* the entry add_patient stores: data.get('age') of a body without age is
\* None, data.get('condition', 'N/A')
NewPatient(data) ==
    [name |-> data["name"], age |-> None,
     condition |-> IF "condition" \in DOMAIN data THEN data["condition"]
                   ELSE "N/A"]

\* variant: the entry is stored without looking for an existing one
add_patient_Upsert(key, data) ==
    /\ IF ~check_api_key(key)
       THEN /\ response' = Unauthorized("add_patient")
            /\ patients' = patients
       ELSE IF DOMAIN data = {} \/ "uhid" \notin DOMAIN data
                \/ "name" \notin DOMAIN data
       THEN /\ response' = [route |-> "add_patient", status |-> 400,
                            body |-> [error |->
                                "Missing required fields (uhid, name)"],
                            external |-> FALSE]
            /\ patients' = patients
       ELSE /\ response' = [route |-> "add_patient", status |-> 201,
                            body |-> [message |-> "Patient created successfully",
                                      uhid |-> data["uhid"]],
                            external |-> FALSE]
            /\ patients' = (data["uhid"] :> NewPatient(data)) @@ patients
    /\ UNCHANGED <<radVars, dbVars, history, downloads>>

\* add_patient (POST /api/patient/add)
add_patient(key, data) ==
    /\ IF ~check_api_key(key)
       THEN /\ response' = Unauthorized("add_patient")
            /\ patients' = patients
       ELSE IF DOMAIN data = {} \/ "uhid" \notin DOMAIN data
                \/ "name" \notin DOMAIN data
       THEN /\ response' = [route |-> "add_patient", status |-> 400,
                            body |-> [error |->
                                "Missing required fields (uhid, name)"],
                            external |-> FALSE]
            /\ patients' = patients
       ELSE IF data["uhid"] \in DOMAIN patients
       THEN /\ response' = [route |-> "add_patient", status |-> 409,
                            body |-> [error |->
                                "Patient with this UHID already exists"],
                            external |-> FALSE]
            /\ patients' = patients
       ELSE /\ response' = [route |-> "add_patient", status |-> 201,
                            body |-> [message |-> "Patient created successfully",
                                      uhid |-> data["uhid"]],
                            external |-> FALSE]
            /\ patients' = (data["uhid"] :> NewPatient(data)) @@ patients
    /\ UNCHANGED <<radVars, dbVars, history, downloads>>

ApiNext ==
    \/ \E key \in ApiKeys, uhid \in ApiUhids : get_patient(key, uhid)
    \/ \E key \in ApiKeys, data \in ApiBodies : add_patient(key, data)

ApiSpec == Init /\ [][ApiNext]_vars

\* C13: a get_patient or add_patient request whose X-API-Key header is
\* missing or differs from API_KEY is answered with 401, with no patient
\* data in the answer, and leaves the patients dictionary unchanged.
C13_ApiKeyGuard ==
    [][\A key \in ApiKeys \ {API_KEY} :
          /\ \A uhid \in ApiUhids :
                get_patient(key, uhid) =>
                    /\ response'.status = 401
                    /\ DOMAIN response'.body = {"description"}
                    /\ patients' = patients
          /\ \A data \in ApiBodies :
                add_patient(key, data) =>
                    /\ response'.status = 401
                    /\ DOMAIN response'.body = {"description"}
                    /\ patients' = patients]_vars

\* a request without a valid key has been refused after patients were added
C13_Witness ==
    /\ response.status = 401
    /\ DOMAIN patients = ApiUhids

Departments == {"psychiatry", "Psychiatry", "cardiology"}
\* str.lower() on the department names
Lower(d) == IF d = "Psychiatry" THEN "psychiatry" ELSE d

\* order ids: secrets.token_hex(4) of index, orderId of the laboratory system
OrderIds == {"0a1b", "2c3d"}

Order(order_id, department) == [orderId |-> order_id, department |-> department]

\* load_history(department): the whole list when department is None
load_history(department) ==
    IF department = None THEN history
    ELSE SelectSeq(history, LAMBDA order : order.department = department)

\* record_order(entry), called by the module-level perform_test_request for
\* the department its caller passes; no route of the blueprint calls it
record_order(entry) ==
    /\ Len(history) < MaxOrders
    /\ history' = <<entry>> \o load_history(None)
    /\ UNCHANGED <<radVars, dbVars, patients, downloads, response>>

\* the order form: uhid and the list of selected tests
LabForms == [uhid : {"", "U1"}, tests : {<<>>, <<"CBC">>}]

\* index (GET and POST /labs/)
index(method, form, order_id) ==
    LET sess == IF "department" \in DOMAIN session THEN session
                ELSE ("department" :> "psychiatry") @@ session
        department == sess["department"]
        accepted == method = "POST" /\ form.uhid # "" /\ form.tests # <<>>
    IN  /\ session' = sess
        /\ history' = IF accepted
                      THEN Append(load_history(department),
                                  Order(order_id, department))
                      ELSE history
        /\ response' =
             [route |-> "index", status |-> 200,
              body |-> [order_id |-> IF accepted THEN order_id ELSE None,
                        error |-> IF method = "POST" /\ ~accepted
                                  THEN "UHID and at least one Test are required."
                                  ELSE None],
              external |-> FALSE]
        /\ UNCHANGED <<radVars, User, Patient, Assessment, Treatment,
                       LabReport, today, patients, downloads>>

\* ------------------------------------------------------------------------
\* Labs blueprint: routes that look an order up
\* ------------------------------------------------------------------------
\* perDepartment lists in the answers of the laboratory system
PerDepartment ==
    {<<>>, <<[status |-> "completed"]>>, <<[status |-> "pending"]>>,
     <<[status |-> "pending"], [status |-> "completed"]>>}

\* outcomes of requests.get(.../api/orders/<id>): the call raises, the answer
\* is not OK, the answer is OK but its body is not a JSON object (resp.json()
\* or j.get raises), the answer is OK with a perDepartment list
ExtAnswers ==
    {[kind |-> k, perDepartment |-> <<>>] :
        k \in {"error", "not_ok", "bad_body"}}
    \cup {[kind |-> "ok", perDepartment |-> pd] : pd \in PerDepartment}

\* positions of the history entries with the order id
OrdersWith(order_id) ==
    {k \in 1..Len(history) : history[k].orderId = order_id}

\* the entry at which "for order in hist: if order['orderId'] == ..." stops
FirstOrder(order_id) ==
    history[CHOOSE k \in OrdersWith(order_id) :
                \A l \in OrdersWith(order_id) : k <= l]

\* variant: an order counts as completed when all departments are
check_order_status_AllCompleted(order_id, ext) ==
    /\ response' =
         IF ext.kind = "ok"
         THEN [route |-> "check_order_status", status |-> 200,
               body |-> [orderId |-> order_id,
                         status |-> IF \A k \in 1..Len(ext.perDepartment) :
                                         ext.perDepartment[k].status = "completed"
                                    THEN "completed" ELSE "in_progress",
                         completedDepartments |->
                            SelectSeq(ext.perDepartment,
                                      LAMBDA d : d.status = "completed"),
                         allDepartments |-> ext.perDepartment],
               external |-> TRUE]
         ELSE IF OrdersWith(order_id) # {}
         THEN [route |-> "check_order_status", status |-> 200,
               body |-> [orderId |-> order_id, status |-> "queued",
                         completedDepartments |-> <<>>,
                         allDepartments |->
                            <<[department |-> FirstOrder(order_id).department,
                               status |-> "queued"]>>],
               external |-> TRUE]
         ELSE [route |-> "check_order_status", status |-> 404,
               body |-> [error |-> "Order not found"], external |-> TRUE]
    /\ UNCHANGED <<radVars, dbVars, patients, history, downloads>>

\* check_order_status (GET /labs/api/status/<order_id>)
check_order_status(order_id, ext) ==
    /\ response' =
         IF ext.kind = "ok"
         THEN LET completed == SelectSeq(ext.perDepartment,
                                         LAMBDA d : d.status = "completed")
              IN  [route |-> "check_order_status", status |-> 200,
                   body |-> [orderId |-> order_id,
                             status |-> IF completed # <<>> THEN "completed"
                                        ELSE "in_progress",
                             completedDepartments |-> completed,
                             allDepartments |-> ext.perDepartment],
                   external |-> TRUE]
         ELSE IF OrdersWith(order_id) # {}
         THEN [route |-> "check_order_status", status |-> 200,
               body |-> [orderId |-> order_id, status |-> "queued",
                         completedDepartments |-> <<>>,
                         allDepartments |->
                            <<[department |-> FirstOrder(order_id).department,
                               status |-> "queued"]>>],
               external |-> TRUE]
         ELSE [route |-> "check_order_status", status |-> 404,
               body |-> [error |-> "Order not found"], external |-> TRUE]
    /\ UNCHANGED <<radVars, dbVars, patients, history, downloads>>

\* redirect(url_for('login'))
RedirectLogin(route) ==
    [route |-> route, status |-> 302, body |-> [location |-> "login"],
     external |-> FALSE]

\* the two error pages shared by view_results and serve_report
NotFoundPage(route) ==
    [route |-> route, status |-> 404, body |-> [page |-> "Error"],
     external |-> FALSE]
AccessDeniedPage(route) ==
    [route |-> route, status |-> 403, body |-> [page |-> "Access Denied"],
     external |-> FALSE]

\* the order's department is the session's, compared in lower case
order_belongs_to_department(order_id) ==
    Lower(FirstOrder(order_id).department) = Lower(session["department"])

\* variant: the ownership check is left out
view_results_NoOwnerCheck(order_id, ext) ==
    /\ response' =
         IF "department" \notin DOMAIN session
         THEN RedirectLogin("view_results")
         ELSE IF OrdersWith(order_id) = {} THEN NotFoundPage("view_results")
         ELSE [route |-> "view_results",
               status |-> IF ext.kind = "not_ok" THEN 503 ELSE 200,
               body |-> [page |-> IF ext.kind = "ok" THEN "Results"
                                  ELSE ext.kind],
               external |-> TRUE]
    /\ UNCHANGED <<radVars, dbVars, patients, history, downloads>>

\* view_results (GET /labs/results/<order_id>); a refused lookup is answered
\* with the laboratory system's status code, 503 here
view_results(order_id, ext) ==
    /\ response' =
         IF "department" \notin DOMAIN session
         THEN RedirectLogin("view_results")
         ELSE IF OrdersWith(order_id) = {} THEN NotFoundPage("view_results")
         ELSE IF ~order_belongs_to_department(order_id)
         THEN AccessDeniedPage("view_results")
         ELSE [route |-> "view_results",
               status |-> IF ext.kind = "not_ok" THEN 503 ELSE 200,
               body |-> [page |-> IF ext.kind = "ok" THEN "Results"
                                  ELSE ext.kind],
               external |-> TRUE]
    /\ UNCHANGED <<radVars, dbVars, patients, history, downloads>>

\* serve_report (GET /labs/download/<filename>), name being the filename of
\* the URL: writes order_<filename>.txt and sends it
serve_report(name) ==
    /\ IF "department" \notin DOMAIN session
       THEN /\ response' = RedirectLogin("serve_report")
            /\ downloads' = downloads
       ELSE IF OrdersWith(name) = {}
       THEN /\ response' = NotFoundPage("serve_report")
            /\ downloads' = downloads
       ELSE IF ~order_belongs_to_department(name)
       THEN /\ response' = AccessDeniedPage("serve_report")
            /\ downloads' = downloads
       ELSE /\ response' = [route |-> "serve_report", status |-> 200,
                            body |-> [attachment |-> name],
                            external |-> FALSE]
            /\ downloads' = downloads \cup {name}
    /\ UNCHANGED <<radVars, dbVars, patients, history>>

\* "for h in hist[:20]": the number of entries history_page asks the
\* laboratory system about
HistoryStatusLimit == 20

\* the smaller of two numbers (the end of a Python slice)
Min(a, b) == IF a <= b THEN a ELSE b

\* the statuses dict history_page builds from one answer of the laboratory
\* system per entry of hist[:20] (here the same answer for each of them)
HistoryStatuses(hist, ext) ==
    [id \in {hist[k].orderId : k \in 1..Min(HistoryStatusLimit, Len(hist))} |->
        IF ext.kind = "ok"
        THEN IF \E k \in 1..Len(ext.perDepartment) :
                   ext.perDepartment[k].status = "completed"
             THEN "completed" ELSE "in_progress"
        ELSE "unknown"]

\* history_page (GET /labs/history): the page lists hist and carries statuses
history_page(ext) ==
    /\ response' =
         IF "department" \notin DOMAIN session
         THEN RedirectLogin("history_page")
         ELSE LET hist == load_history(session["department"])
              IN  [route |-> "history_page", status |-> 200,
                   body |-> [hist |-> hist,
                             statuses |-> HistoryStatuses(hist, ext)],
                   external |-> hist # <<>>]
    /\ UNCHANGED <<radVars, dbVars, patients, history, downloads>>

\* the department index files a new order under
IndexDepartment ==
    IF "department" \in DOMAIN session THEN session["department"]
    ELSE "psychiatry"

LabNext ==
    \/ \E order_id \in OrderIds, department \in Departments :
            record_order(Order(order_id, department))
    \/ \E method \in {"GET", "POST"}, form \in LabForms, order_id \in OrderIds :
            /\ Len(load_history(IndexDepartment)) < MaxOrders
            /\ index(method, form, order_id)
    \/ \E order_id \in OrderIds, ext \in ExtAnswers :
            check_order_status(order_id, ext)
    \/ \E order_id \in OrderIds, ext \in ExtAnswers :
            view_results(order_id, ext)
    \/ \E name \in OrderIds : serve_report(name)

LabSpec == Init /\ [][LabNext]_vars

\* the order id secrets.token_hex(4) draws for the next order, the draws
\* being pairwise different
NextOrderId == ToString(Len(history) + 1)

\* one department submitting orders through the index form and opening its
\* history page
HistNext ==
    \/ \E method \in {"GET", "POST"}, form \in LabForms :
            /\ Len(history) < MaxHistory
            /\ index(method, form, NextOrderId)
    \/ \E ext \in ExtAnswers : history_page(ext)

HistSpec == Init /\ [][HistNext]_vars

Quiet ==
    /\ ~response'.external
    /\ downloads' = downloads
    /\ history' = history

\* what C15 says of a view_results or serve_report step for order_id
Refused(order_id) ==
    /\ "department" \notin DOMAIN session =>
          /\ response'.status = 302
          /\ response'.body = [location |-> "login"]
          /\ Quiet
    /\ ("department" \in DOMAIN session
            /\ \A k \in 1..Len(history) : history[k].orderId # order_id) =>
          /\ response'.status = 404
          /\ Quiet
    /\ ("department" \in DOMAIN session
            /\ \E k \in 1..Len(history) :
                  /\ history[k].orderId = order_id
                  /\ \A l \in 1..(k - 1) : history[l].orderId # order_id
                  /\ Lower(history[k].department)
                        # Lower(session["department"])) =>
          /\ response'.status = 403
          /\ Quiet

\* C15: view_results and serve_report serve only orders of the session's
\* department: without a department in the session they redirect to login,
\* for an order id that no history entry has they answer 404, and when the
\* history entry with that id (the first one, should the id occur twice)
\* belongs to a department that differs in lower case from the session's they
\* answer 403; in these cases no external request is made and no file is
\* written.
C15_OwnDepartmentOnly ==
    [][\A order_id \in OrderIds :
          /\ \A ext \in ExtAnswers :
                view_results(order_id, ext) => Refused(order_id)
          /\ serve_report(order_id) => Refused(order_id)]_vars

\* a report of the session's department has been written and served, and a
\* request for another department's order was then refused
C15_Witness ==
    /\ response.status = 403
    /\ downloads # {}
    /\ \E k \in 1..Len(history) :
          Lower(history[k].department) # Lower(session["department"])

\* C20: check_order_status reports 'completed' when the external lookup
\* answers OK with at least one completed perDepartment entry and
\* 'in_progress' when it answers OK without one; when the lookup raises,
\* answers non-OK or answers with a body that cannot be read, it reports
\* 'queued' for an order id of the local history and 404 'Order not found'
\* otherwise; the history is never changed.
C20_StatusDegradesToLocal ==
    [][\A order_id \in OrderIds, ext \in ExtAnswers :
          check_order_status(order_id, ext) =>
             /\ history' = history
             /\ IF ext.kind = "ok"
                THEN /\ response'.status = 200
                     /\ response'.body.status =
                          IF \E k \in 1..Len(ext.perDepartment) :
                                ext.perDepartment[k].status = "completed"
                          THEN "completed" ELSE "in_progress"
                ELSE IF \E k \in 1..Len(history) :
                            history[k].orderId = order_id
                THEN /\ response'.status = 200
                     /\ response'.body.status = "queued"
                ELSE /\ response'.status = 404
                     /\ response'.body = [error |-> "Order not found"]]_vars

\* the lookup failed for an order of the local history: 'queued' is reported
\* with the department recorded locally
C20_Witness ==
    /\ response.route = "check_order_status"
    /\ response.status = 200
    /\ response.body.status = "queued"
    /\ response.body.allDepartments[1].department = "cardiology"

\* the status the history page shows for an order id
ShownStatus(body, id) ==
    IF id \in DOMAIN body.statuses THEN body.statuses[id] ELSE "unknown"

\* C22: history_page looks up the external status for the last 20 orders of
\* the session's department: of the orders submitted through the index form
\* those whose status is fetched are the 20 most recently submitted ones (all
\* of them when there are at most 20), and the older ones are shown as
\* 'unknown'.
C22_FetchesMostRecent ==
    [][\A ext \in ExtAnswers :
          (history_page(ext) /\ "department" \in DOMAIN session) =>
             LET hist == load_history(session["department"])
                 n == Len(hist)
                 older == {k \in 1..n : k <= n - HistoryStatusLimit}
             IN  /\ DOMAIN response'.body.statuses =
                       {hist[k].orderId : k \in (1..n) \ older}
                 /\ \A k \in older :
                       ShownStatus(response'.body, hist[k].orderId)
                          = "unknown"]_vars

====
